---- MODULE Spec2Model ----
(***************************************************************************)
(* MD5 test program (md5-test.c): the streaming hasher md5_hash, the       *)
(* self-check over the table of known digests, and main's gating of the    *)
(* benchmark on the self-check.                                            *)
(***************************************************************************)
EXTENDS Integers, Sequences, FiniteSets, TLC

\* ------------------------------------------------------------------------
\* 32-bit words.  A uint32_t is kept as <<high 16 bits, low 16 bits>>, so that
\* every intermediate value of the modular arithmetic stays a small integer.
\* ------------------------------------------------------------------------
\* 2^n for 0 <= n <= 16
Pow2(n) == <<1, 2, 4, 8, 16, 32, 64, 128, 256, 512, 1024, 2048, 4096, 8192,
             16384, 32768, 65536>>[n + 1]

Two16 == Pow2(16)

\* UINT32_C(0x....) literal, given as its two 16-bit halves
W32(hi, lo) == <<hi, lo>>

\* wrapping 32-bit addition
Add32(x, y) ==
    LET lo == x[2] + y[2]
        hi == x[1] + y[1] + (lo \div Two16)
    IN  <<hi % Two16, lo % Two16>>

\* rotate-left of a 32-bit word by s bits, 0 <= s < 32
RotL32(x, s) ==
    LET y == IF s >= 16 THEN <<x[2], x[1]>> ELSE x
        r == IF s >= 16 THEN s - 16 ELSE s
        p == Pow2(r)
        q == Pow2(16 - r)
    IN  << (y[1] % q) * p + (y[2] \div q), (y[2] % q) * p + (y[1] \div q) >>

\* ------------------------------------------------------------------------
\* The compression function (md5_compress), linked from outside md5-test.c.
\* ------------------------------------------------------------------------
\* per-round additive constants, floor(2^32 * |sin(i + 1)|)
RoundConstants ==
    <<
       W32(\hD76A, \hA478), W32(\hE8C7, \hB756), W32(\h2420, \h70DB), W32(\hC1BD, \hCEEE),
       W32(\hF57C, \h0FAF), W32(\h4787, \hC62A), W32(\hA830, \h4613), W32(\hFD46, \h9501),
       W32(\h6980, \h98D8), W32(\h8B44, \hF7AF), W32(\hFFFF, \h5BB1), W32(\h895C, \hD7BE),
       W32(\h6B90, \h1122), W32(\hFD98, \h7193), W32(\hA679, \h438E), W32(\h49B4, \h0821),
       W32(\hF61E, \h2562), W32(\hC040, \hB340), W32(\h265E, \h5A51), W32(\hE9B6, \hC7AA),
       W32(\hD62F, \h105D), W32(\h0244, \h1453), W32(\hD8A1, \hE681), W32(\hE7D3, \hFBC8),
       W32(\h21E1, \hCDE6), W32(\hC337, \h07D6), W32(\hF4D5, \h0D87), W32(\h455A, \h14ED),
       W32(\hA9E3, \hE905), W32(\hFCEF, \hA3F8), W32(\h676F, \h02D9), W32(\h8D2A, \h4C8A),
       W32(\hFFFA, \h3942), W32(\h8771, \hF681), W32(\h6D9D, \h6122), W32(\hFDE5, \h380C),
       W32(\hA4BE, \hEA44), W32(\h4BDE, \hCFA9), W32(\hF6BB, \h4B60), W32(\hBEBF, \hBC70),
       W32(\h289B, \h7EC6), W32(\hEAA1, \h27FA), W32(\hD4EF, \h3085), W32(\h0488, \h1D05),
       W32(\hD9D4, \hD039), W32(\hE6DB, \h99E5), W32(\h1FA2, \h7CF8), W32(\hC4AC, \h5665),
       W32(\hF429, \h2244), W32(\h432A, \hFF97), W32(\hAB94, \h23A7), W32(\hFC93, \hA039),
       W32(\h655B, \h59C3), W32(\h8F0C, \hCC92), W32(\hFFEF, \hF47D), W32(\h8584, \h5DD1),
       W32(\h6FA8, \h7E4F), W32(\hFE2C, \hE6E0), W32(\hA301, \h4314), W32(\h4E08, \h11A1),
       W32(\hF753, \h7E82), W32(\hBD3A, \hF235), W32(\h2AD7, \hD2BB), W32(\hEB86, \hD391)
    >>

\* per-round rotation amounts
RotateAmounts ==
    << 7, 12, 17, 22,  7, 12, 17, 22,  7, 12, 17, 22,  7, 12, 17, 22,
       5,  9, 14, 20,  5,  9, 14, 20,  5,  9, 14, 20,  5,  9, 14, 20,
       4, 11, 16, 23,  4, 11, 16, 23,  4, 11, 16, 23,  4, 11, 16, 23,
       6, 10, 15, 21,  6, 10, 15, 21,  6, 10, 15, 21,  6, 10, 15, 21 >>

\* message-word selection of round i (0-based), a fixed permutation per stage
MessageIndex(i) ==
    CASE i < 16 -> i
      [] i < 32 -> (5 * i + 1) % 16
      [] i < 48 -> (3 * i + 5) % 16
      [] OTHER  -> (7 * i) % 16

\* one bit of the stage's nonlinear mixing function of (b, c, d)
MixBit(stage, b, c, d) ==
    CASE stage = 0 -> IF b = 1 THEN c ELSE d
      [] stage = 1 -> IF d = 1 THEN b ELSE c
      [] stage = 2 -> (b + c + d) % 2
      [] OTHER     -> (c + (IF b = 1 \/ d = 0 THEN 1 ELSE 0)) % 2

\* the mixing function on n-bit operands, bit by bit
RECURSIVE MixBits(_, _, _, _, _)
MixBits(stage, b, c, d, n) ==
    IF n = 0 THEN 0
    ELSE MixBit(stage, b % 2, c % 2, d % 2)
         + 2 * MixBits(stage, b \div 2, c \div 2, d \div 2, n - 1)

\* the mixing function of each stage on 4-bit operands, tabulated once:
\* entry 256 * b + 16 * c + d
MixNibble ==
    [stage \in 0..3 |->
        [k \in 0..4095 |-> MixBits(stage, k \div 256, (k \div 16) % 16, k % 16, 4)]]

\* the mixing function on 16-bit operands, a nibble at a time
Mix16(stage, b, c, d) ==
    LET t == MixNibble[stage]
        N(v, p) == (v \div p) % 16
        At(p)   == t[256 * N(b, p) + 16 * N(c, p) + N(d, p)]
    IN  At(4096) * 4096 + At(256) * 256 + At(16) * 16 + At(1)

Mix32(stage, b, c, d) ==
    << Mix16(stage, b[1], c[1], d[1]), Mix16(stage, b[2], c[2], d[2]) >>

\* the block as sixteen 32-bit little-endian words (j is 0-based)
BlockWord(block, j) ==
    << block[4 * j + 4] * 256 + block[4 * j + 3],
       block[4 * j + 2] * 256 + block[4 * j + 1] >>

\* the same four bytes read most-significant byte first
BlockWordBE(block, j) ==
    << block[4 * j + 1] * 256 + block[4 * j + 2],
       block[4 * j + 3] * 256 + block[4 * j + 4] >>

\* round i on the working words st = <<a, b, c, d>>
Round(st, m, i) ==
    LET f == Mix32(i \div 16, st[2], st[3], st[4])
        t == Add32(Add32(st[1], f), Add32(RoundConstants[i + 1], m[MessageIndex(i) + 1]))
    IN  << st[4], Add32(st[2], RotL32(t, RotateAmounts[i + 1])), st[2], st[3] >>

\* rounds i .. i + n - 1 on the four working words st (testing st first makes
\* each round's result a value before the next round uses it)
RECURSIVE RoundsFrom(_, _, _, _)
RoundsFrom(st, m, i, n) ==
    IF Len(st) = 4 /\ n > 0 THEN RoundsFrom(Round(st, m, i), m, i + 1, n - 1) ELSE st

\* the 64 rounds, four stages of 16
Rounds(state, m) ==
    LET s1 == RoundsFrom(state, m, 0, 16)
        s2 == RoundsFrom(s1, m, 16, 16)
        s3 == RoundsFrom(s2, m, 32, 16)
    IN  RoundsFrom(s3, m, 48, 16)

InitialState ==
    << W32(\h6745, \h2301), W32(\hEFCD, \hAB89), W32(\h98BA, \hDCFE), W32(\h1032, \h5476) >>

\* the standard transform: 64 rounds, then each input word is added back
md5_compress_std(state, block) ==
    LET m == [j \in 1..16 |-> BlockWord(block, j - 1)]
        r == Rounds(state, m)
    IN  << Add32(state[1], r[1]), Add32(state[2], r[2]),
           Add32(state[3], r[3]), Add32(state[4], r[4]) >>

\* defective transforms a build may link instead: the last word is not added
\* back; message word 1 is read in the wrong byte order; the incoming state is
\* ignored in favour of the initial constants
md5_compress_no_add_d(state, block) ==
    LET m == [j \in 1..16 |-> BlockWord(block, j - 1)]
        r == Rounds(state, m)
    IN  << Add32(state[1], r[1]), Add32(state[2], r[2]), Add32(state[3], r[3]), r[4] >>

md5_compress_swap_w1(state, block) ==
    LET m == [j \in 1..16 |->
                 IF j = 2 THEN BlockWordBE(block, 1) ELSE BlockWord(block, j - 1)]
        r == Rounds(state, m)
    IN  << Add32(state[1], r[1]), Add32(state[2], r[2]),
           Add32(state[3], r[3]), Add32(state[4], r[4]) >>

md5_compress_no_chain(state, block) == md5_compress_std(InitialState, block)

\* extern void md5_compress(uint32_t state[4], const uint8_t block[64]):
\* whichever implementation the program was linked with
md5_compress(linked, state, block) ==
    CASE linked = "std"      -> md5_compress_std(state, block)
      [] linked = "no_add_d" -> md5_compress_no_add_d(state, block)
      [] linked = "swap_w1"  -> md5_compress_swap_w1(state, block)
      [] OTHER               -> md5_compress_no_chain(state, block)

Implementations == {"std", "no_add_d", "swap_w1", "no_chain"}


\* ------------------------------------------------------------------------
\* Sizes
\* ------------------------------------------------------------------------
BLOCK_SIZE == 64      \* In bytes
LENGTH_SIZE == 8      \* In bytes

\* width of size_t in the state machine, scaled down so that every length a
\* size_t can hold, the largest included, is hashed
SizeBits == 8
SizeMod == Pow2(SizeBits)
SIZE_MAX == SizeMod - 1

\* unsigned size_t arithmetic
SizeSub(a, b) == (a - b + SizeMod) % SizeMod
SizeAdd(a, b) == (a + b) % SizeMod

ZeroBlock == [j \in 1..BLOCK_SIZE |-> 0]
ZeroState == << W32(0, 0), W32(0, 0), W32(0, 0), W32(0, 0) >>

\* what an uninitialised uint32_t hash[4] may hold
Garbage ==
    { ZeroState,
      << W32(\hDEAD, \hBEEF), W32(\hCAFE, \hBABE), W32(\h0001, \hFFFF), W32(\h8000, \h0000) >> }

\* a byte read past the end of the message buffer may be anything
OobBytes == {0, 255}

VARIABLES
    linked,       \* the md5_compress implementation the program is linked with
    pc,           \* position in the program
    \* md5_hash: parameters and locals
    message,      \* the buffer message points to
    len,          \* size_t len (shifted down while the length is encoded)
    hash,         \* uint32_t hash[4]
    off,          \* size_t off
    rem,          \* size_t rem
    block,        \* uint8_t block[BLOCK_SIZE]
    lenIndex,     \* int i of the length loop
    \* md5_hash: what one call has done so far
    len0,         \* len as passed
    fed,          \* the blocks passed to md5_compress, in call order
    stateIn,      \* the state passed with each of them
    loopOffs,     \* off at each call made from the full-block loop
    maxRead,      \* 1 + the highest message index read, 0 if none
    copied,       \* the byte count of the memcpy, -1 before it
    written,      \* the indices i of every store block[i] = ...
    loopIters,    \* iterations of the full-block loop
    lenIters,     \* iterations of the length loop
    padPath,      \* "none", then "one" or "two" once the padding path is taken
    \* self_check and main
    tcIndex,      \* size_t i of self_check
    scResult,     \* "pending", then "true" or "false": what self_check returned
    hashed,       \* the entries md5_hash was called on, in call order
    digests,      \* the hash each of those calls left, in order
    output,       \* the lines printed
    exitCode,     \* "running", then main's return value
    benchState,   \* uint32_t state[4] of main
    benchIndex,   \* int i of the benchmark loop
    benchCalls,   \* md5_compress calls made by the benchmark loop
    \* a caller hashing one message twice into the same buffer
    run,          \* 1 or 2: which call is under way
    firstDigest,  \* the digest the first call left
    firstCalls,   \* the (state, block) pairs the first call passed to md5_compress
    \* the length encoding on a size_t of real width
    wide,         \* len as its bytes, least significant first
    wide0         \* len as passed

hashVars == << message, len, hash, off, rem, block, lenIndex, len0, fed, stateIn,
               loopOffs, maxRead, copied, written, loopIters, lenIters, padPath >>
mainVars == << tcIndex, scResult, hashed, digests, output, exitCode, benchState,
               benchIndex, benchCalls >>
callerVars == << run, firstDigest, firstCalls >>
wideVars == << wide, wide0 >>
vars == << linked, pc, hashVars, mainVars, callerVars, wideVars >>

\* everything md5_hash does not touch
outside == << linked, mainVars, callerVars, wideVars >>

\* ------------------------------------------------------------------------
\* md5_hash(message, len, hash)
\* ------------------------------------------------------------------------
\* no call under way
NoCall ==
    /\ message = << >> /\ len = 0 /\ len0 = 0 /\ hash = ZeroState
    /\ off = 0 /\ rem = 0 /\ block = ZeroBlock /\ lenIndex = 0
    /\ fed = << >> /\ stateIn = << >> /\ loopOffs = << >>
    /\ maxRead = 0 /\ copied = -1 /\ written = {}
    /\ loopIters = 0 /\ lenIters = 0 /\ padPath = "none"

\* the call itself: parameters bound, locals not yet written, nothing done
CallHash(buf, n, h) ==
    /\ message' = buf /\ len' = n /\ len0' = n /\ hash' = h
    /\ off' = 0 /\ rem' = 0 /\ block' = ZeroBlock /\ lenIndex' = 0
    /\ fed' = << >> /\ stateIn' = << >> /\ loopOffs' = << >>
    /\ maxRead' = 0 /\ copied' = -1 /\ written' = {}
    /\ loopIters' = 0 /\ lenIters' = 0 /\ padPath' = "none"

\* message[idx], idx counted from 0
ReadByte(buf, idx, junk) == IF idx < Len(buf) THEN buf[idx + 1] ELSE junk

\* the n bytes at &message[o]
ReadBytes(buf, o, n, junk) == [j \in 1..n |-> ReadByte(buf, o + j - 1, junk)]

\* block[idx] = v, idx counted from 0 (a store outside the array leaves it alone)
StoreByte(b, idx, v) == IF idx < BLOCK_SIZE THEN [b EXCEPT ![idx + 1] = v] ELSE b

\* faulty variant: the store to hash[3] is missing
InitHash_KeepLast(h) == << InitialState[1], InitialState[2], InitialState[3], h[4] >>

\* hash[0] = 0x67452301; ... hash[3] = 0x10325476: whatever h held is gone
InitHash(h) == InitialState

\* faulty variants of the loop test: > for >=, and a bound one too small
LoopCond_Strict(n, o) == SizeSub(n, o) > BLOCK_SIZE
LoopCond_Loose(n, o) == SizeSub(n, o) >= BLOCK_SIZE - 1

\* loop test: len - off >= BLOCK_SIZE
LoopCond(n, o) == SizeSub(n, o) >= BLOCK_SIZE

\* faulty variant: the offset advances by half a block
NextOff_Half(o) == SizeAdd(o, BLOCK_SIZE \div 2)

\* off += BLOCK_SIZE
NextOff(o) == SizeAdd(o, BLOCK_SIZE)

\* the byte stored after the tail
Marker == \h80

\* faulty variant: <= for <
NeedsSecondBlock_Le(r) == SizeSub(BLOCK_SIZE, r) <= LENGTH_SIZE

\* BLOCK_SIZE - rem < LENGTH_SIZE
NeedsSecondBlock(r) == SizeSub(BLOCK_SIZE, r) < LENGTH_SIZE

\* (uint8_t)((len & 0x1FU) << 3)
LengthLowByte(n) == ((n % 32) * 8) % 256

\* faulty variant: the shift matches the << 3 instead of the 5 bits taken
ShiftRight5_By3(n) == n \div 8

\* len >>= 5
ShiftRight5(n) == n \div 32

\* (uint8_t)(len & 0xFFU)
LengthNextByte(n) == n % 256

\* faulty variant: the shift is missing
ShiftRight8_None(n) == n

\* len >>= 8
ShiftRight8(n) == n \div 256

\* hash[0] = ...; hash[3] = ...; off = 0
HashStart ==
    /\ pc = "h_init"
    /\ hash' = InitHash(hash)
    /\ off' = 0
    /\ pc' = "h_loop"
    /\ UNCHANGED << message, len, rem, block, lenIndex, len0, fed, stateIn, loopOffs,
                    maxRead, copied, written, loopIters, lenIters, padPath, outside >>

\* one iteration of: for (...; len - off >= BLOCK_SIZE; off += BLOCK_SIZE)
\*                       md5_compress(hash, &message[off]);
LoopCompress ==
    /\ pc = "h_loop"
    /\ LoopCond(len, off)
    /\ \E junk \in (IF off + BLOCK_SIZE > Len(message) THEN OobBytes ELSE {0}) :
          LET slice == ReadBytes(message, off, BLOCK_SIZE, junk)
          IN  /\ hash' = md5_compress(linked, hash, slice)
              /\ fed' = Append(fed, slice)
    /\ stateIn' = Append(stateIn, hash)
    /\ loopOffs' = Append(loopOffs, off)
    /\ maxRead' = IF off + BLOCK_SIZE > maxRead THEN off + BLOCK_SIZE ELSE maxRead
    /\ loopIters' = loopIters + 1
    /\ off' = NextOff(off)
    /\ UNCHANGED << pc, message, len, rem, block, lenIndex, len0, copied, written,
                    lenIters, padPath, outside >>

\* loop exit; uint8_t block[BLOCK_SIZE] = {0}; size_t rem = len - off;
\* memcpy(block, &message[off], rem)
TailCopy ==
    /\ pc = "h_loop"
    /\ ~LoopCond(len, off)
    /\ rem' = SizeSub(len, off)
    /\ \E junk \in (IF off + rem' > Len(message) THEN OobBytes ELSE {0}) :
          block' = [j \in 1..BLOCK_SIZE |->
                       IF j <= rem' THEN ReadByte(message, off + j - 1, junk) ELSE 0]
    /\ copied' = rem'
    /\ maxRead' = IF rem' > 0 /\ off + rem' > maxRead THEN off + rem' ELSE maxRead
    /\ pc' = "h_mark"
    /\ UNCHANGED << message, len, hash, off, lenIndex, len0, fed, stateIn, loopOffs,
                    written, loopIters, lenIters, padPath, outside >>

\* block[rem] = 0x80; rem++
StoreMarker ==
    /\ pc = "h_mark"
    /\ block' = StoreByte(block, rem, Marker)
    /\ written' = written \cup {rem}
    /\ rem' = SizeAdd(rem, 1)
    /\ pc' = "h_pad"
    /\ UNCHANGED << message, len, hash, off, lenIndex, len0, fed, stateIn, loopOffs,
                    maxRead, copied, loopIters, lenIters, padPath, outside >>

\* if (BLOCK_SIZE - rem < LENGTH_SIZE) { md5_compress(hash, block);
\*                                       memset(block, 0, sizeof(block)); }
PadBlock ==
    /\ pc = "h_pad"
    /\ IF NeedsSecondBlock(rem)
       THEN /\ hash' = md5_compress(linked, hash, block)
            /\ fed' = Append(fed, block)
            /\ stateIn' = Append(stateIn, hash)
            /\ block' = ZeroBlock
            /\ padPath' = "two"
       ELSE /\ padPath' = "one"
            /\ UNCHANGED << hash, fed, stateIn, block >>
    /\ pc' = "h_len"
    /\ UNCHANGED << message, len, off, rem, lenIndex, len0, loopOffs, maxRead, copied,
                    written, loopIters, lenIters, outside >>

\* block[BLOCK_SIZE - LENGTH_SIZE] = (uint8_t)((len & 0x1FU) << 3); len >>= 5;
\* int i = 1
LengthFirst ==
    /\ pc = "h_len"
    /\ block' = StoreByte(block, BLOCK_SIZE - LENGTH_SIZE, LengthLowByte(len))
    /\ written' = written \cup {BLOCK_SIZE - LENGTH_SIZE}
    /\ len' = ShiftRight5(len)
    /\ lenIndex' = 1
    /\ pc' = "h_lenloop"
    /\ UNCHANGED << message, hash, off, rem, len0, fed, stateIn, loopOffs, maxRead,
                    copied, loopIters, lenIters, padPath, outside >>

\* one iteration of: for (int i = 1; i < LENGTH_SIZE; i++, len >>= 8)
\*                       block[BLOCK_SIZE - LENGTH_SIZE + i] = (uint8_t)(len & 0xFFU);
LengthByte ==
    /\ pc = "h_lenloop"
    /\ lenIndex < LENGTH_SIZE
    /\ block' = StoreByte(block, BLOCK_SIZE - LENGTH_SIZE + lenIndex, LengthNextByte(len))
    /\ written' = written \cup {BLOCK_SIZE - LENGTH_SIZE + lenIndex}
    /\ lenIndex' = lenIndex + 1
    /\ len' = ShiftRight8(len)
    /\ lenIters' = lenIters + 1
    /\ UNCHANGED << pc, message, hash, off, rem, len0, fed, stateIn, loopOffs, maxRead,
                    copied, loopIters, padPath, outside >>

\* length loop exit; md5_compress(hash, block); return
FinalCompress ==
    /\ pc = "h_lenloop"
    /\ ~(lenIndex < LENGTH_SIZE)
    /\ hash' = md5_compress(linked, hash, block)
    /\ fed' = Append(fed, block)
    /\ stateIn' = Append(stateIn, hash)
    /\ pc' = "h_ret"
    /\ UNCHANGED << message, len, off, rem, block, lenIndex, len0, loopOffs, maxRead,
                    copied, written, loopIters, lenIters, padPath, outside >>

HashStep ==
    \/ HashStart
    \/ LoopCompress
    \/ TailCopy
    \/ StoreMarker
    \/ PadBlock
    \/ LengthFirst
    \/ LengthByte
    \/ FinalCompress

\* nothing of self_check and main has run
NoMain ==
    /\ tcIndex = 0 /\ scResult = "pending" /\ hashed = << >> /\ digests = << >>
    /\ output = << >> /\ exitCode = "running"
    /\ benchState = ZeroState /\ benchIndex = 0 /\ benchCalls = 0

NoCaller == run = 1 /\ firstDigest = ZeroState /\ firstCalls = << >>

NoWide == wide = << >> /\ wide0 = << >>

\* ------------------------------------------------------------------------
\* A caller of md5_hash: any message a size_t can measure, hashed twice into
\* one buffer, which holds garbage the first time and the first digest the
\* second time
\* ------------------------------------------------------------------------
\* message contents: all zero bytes, or bytes that change with the position
MessageKinds == {"zeros", "ramp"}
MessageOf(kind, n) ==
    [j \in 1..n |-> IF kind = "zeros" THEN 0 ELSE (37 * (j - 1) + 91) % 256]

CallerInit ==
    /\ linked = "std"
    /\ pc = "h_init"
    /\ \E kind \in MessageKinds, n \in 0..SIZE_MAX :
          /\ message = MessageOf(kind, n)
          /\ len = n
          /\ len0 = n
    /\ hash \in Garbage
    /\ off = 0 /\ rem = 0 /\ block = ZeroBlock /\ lenIndex = 0
    /\ fed = << >> /\ stateIn = << >> /\ loopOffs = << >>
    /\ maxRead = 0 /\ copied = -1 /\ written = {}
    /\ loopIters = 0 /\ lenIters = 0 /\ padPath = "none"
    /\ NoMain /\ NoCaller /\ NoWide

\* the first call has returned: keep its digest, call again on the same buffer
CallerAgain ==
    /\ pc = "h_ret"
    /\ run = 1
    /\ firstDigest' = hash
    /\ firstCalls' = << stateIn, fed >>
    /\ run' = 2
    /\ CallHash(message, len0, hash)
    /\ pc' = "h_init"
    /\ UNCHANGED << linked, mainVars, wideVars >>

\* the second call has returned
CallerDone ==
    /\ pc = "h_ret"
    /\ run = 2
    /\ pc' = "done"
    /\ UNCHANGED << hashVars, outside >>

NextHash == HashStep \/ CallerAgain \/ CallerDone

SpecHash == CallerInit /\ [][NextHash]_vars

\* ------------------------------------------------------------------------
\* Self-check
\* ------------------------------------------------------------------------
\* struct testcase { uint32_t answer[4]; const uint8_t *message; }; the message
\* is a string literal, so a zero byte ends it
TESTCASE(a, b, c, d, msg) == [answer |-> << a, b, c, d >>, message |-> msg]

TestCases ==
  <<
    \* ""
    TESTCASE(W32(\hD98C, \h1DD4), W32(\h04B2, \h008F), W32(\h9809, \h80E9), W32(\h7E42, \hF8EC),
      <<
        0
      >>),
    \* "a"
    TESTCASE(W32(\hB975, \hC10C), W32(\hA8B6, \hF1C0), W32(\hE299, \hC331), W32(\h6126, \h7769),
      <<
        97, 0
      >>),
    \* "abc"
    TESTCASE(W32(\h9850, \h0190), W32(\hB04F, \hD23C), W32(\h7D3F, \h96D6), W32(\h727F, \hE128),
      <<
        97, 98, 99, 0
      >>),
    \* "message digest"
    TESTCASE(W32(\h7D69, \h6BF9), W32(\h8D93, \hB77C), W32(\h312F, \h5A52), W32(\hD061, \hF1AA),
      <<
        109, 101, 115, 115, 97, 103, 101, 32, 100, 105, 103, 101, 115, 116, 0
      >>),
    \* "abcdefghijklmnopqrstuvwxyz"
    TESTCASE(W32(\hD7D3, \hFCC3), W32(\h00E4, \h9261), W32(\h6C49, \hFB7D), W32(\h3BE1, \h67CA),
      <<
        97, 98, 99, 100, 101, 102, 103, 104, 105, 106, 107, 108, 109, 110, 111, 112,
        113, 114, 115, 116, 117, 118, 119, 120, 121, 122, 0
      >>),
    \* "ABCDEFGHIJKLMNOPQRSTUVWXYZabcdefghijklmnopqrstuvwxyz0123456789"
    TESTCASE(W32(\h98AB, \h74D1), W32(\hF5D9, \h77D2), W32(\h2C1C, \h61A5), W32(\h9F9D, \h419F),
      <<
        65, 66, 67, 68, 69, 70, 71, 72, 73, 74, 75, 76, 77, 78, 79, 80,
        81, 82, 83, 84, 85, 86, 87, 88, 89, 90, 97, 98, 99, 100, 101, 102,
        103, 104, 105, 106, 107, 108, 109, 110, 111, 112, 113, 114, 115, 116, 117, 118,
        119, 120, 121, 122, 48, 49, 50, 51, 52, 53, 54, 55, 56, 57, 0
      >>),
    \* "12345678901234567890123456789012345678901234567890123456789012345678901234567890"
    TESTCASE(W32(\hA2F4, \hED57), W32(\h55C9, \hE32B), W32(\h2EDA, \h49AC), W32(\h7AB6, \h0721),
      <<
        49, 50, 51, 52, 53, 54, 55, 56, 57, 48, 49, 50, 51, 52, 53, 54,
        55, 56, 57, 48, 49, 50, 51, 52, 53, 54, 55, 56, 57, 48, 49, 50,
        51, 52, 53, 54, 55, 56, 57, 48, 49, 50, 51, 52, 53, 54, 55, 56,
        57, 48, 49, 50, 51, 52, 53, 54, 55, 56, 57, 48, 49, 50, 51, 52,
        53, 54, 55, 56, 57, 48, 49, 50, 51, 52, 53, 54, 55, 56, 57, 48,
        0
      >>)
  >>

\* sizeof(testCases) / sizeof(testCases[i])
NumTestCases == Len(TestCases)

\* strlen: the number of bytes before the first zero byte
strlen(buf) == (CHOOSE k \in 1..Len(buf) : buf[k] = 0 /\ \A j \in 1..(k - 1) : buf[j] # 0) - 1

\* faulty variant: only the first word is compared
SameDigest_FirstWord(h, answer) == h[1] = answer[1]

\* memcmp(hash, tc->answer, sizeof(tc->answer)) == 0
SameDigest(h, answer) == h = answer

\* faulty variant: the result is ignored
SelfCheckFailed_Never(result) == FALSE

\* main's test of the self-check: !self_check()
SelfCheckFailed(result) == result # "true"

\* const int N = 10000000, cut down to a few iterations
BenchIterations == 3

MainInit ==
    /\ linked \in Implementations
    /\ pc = "main"
    /\ NoCall /\ NoMain /\ NoCaller /\ NoWide

\* main calls self_check: size_t i = 0
MainStart ==
    /\ pc = "main"
    /\ tcIndex' = 0
    /\ pc' = "sc_loop"
    /\ UNCHANGED << linked, hashVars, scResult, hashed, digests, output, exitCode,
                    benchState, benchIndex, benchCalls, callerVars, wideVars >>

\* loop test holds: tc = &testCases[i]; uint32_t hash[4];
\* md5_hash(tc->message, strlen((const char *)tc->message), hash)
SelfCheckCall ==
    /\ pc = "sc_loop"
    /\ tcIndex < NumTestCases
    /\ \E uninit \in Garbage :
          LET tc == TestCases[tcIndex + 1]
          IN  CallHash(tc.message, strlen(tc.message), uninit)
    /\ hashed' = Append(hashed, tcIndex)
    /\ pc' = "h_init"
    /\ UNCHANGED << linked, tcIndex, scResult, digests, output, exitCode, benchState,
                    benchIndex, benchCalls, callerVars, wideVars >>

\* md5_hash has returned: if (memcmp(...) != 0) return false; else i++
SelfCheckCompare ==
    /\ pc = "h_ret"
    /\ digests' = Append(digests, hash)
    /\ IF SameDigest(hash, TestCases[tcIndex + 1].answer)
       THEN /\ tcIndex' = tcIndex + 1
            /\ pc' = "sc_loop"
            /\ UNCHANGED scResult
       ELSE /\ scResult' = "false"
            /\ pc' = "main_check"
            /\ UNCHANGED tcIndex
    /\ UNCHANGED << linked, hashVars, hashed, output, exitCode, benchState, benchIndex,
                    benchCalls, callerVars, wideVars >>

\* loop test fails: return true
SelfCheckPass ==
    /\ pc = "sc_loop"
    /\ ~(tcIndex < NumTestCases)
    /\ scResult' = "true"
    /\ pc' = "main_check"
    /\ UNCHANGED << linked, hashVars, tcIndex, hashed, digests, output, exitCode,
                    benchState, benchIndex, benchCalls, callerVars, wideVars >>

\* ------------------------------------------------------------------------
\* Main program
\* ------------------------------------------------------------------------
\* if (!self_check()) { printf("Self-check failed\n"); return EXIT_FAILURE; }
MainFailed ==
    /\ pc = "main_check"
    /\ SelfCheckFailed(scResult)
    /\ output' = Append(output, "Self-check failed")
    /\ exitCode' = "EXIT_FAILURE"
    /\ pc' = "exit"
    /\ UNCHANGED << linked, hashVars, tcIndex, scResult, hashed, digests, benchState,
                    benchIndex, benchCalls, callerVars, wideVars >>

\* printf("Self-check passed\n"); uint32_t state[4] = {0};
\* uint8_t block[64] = {0}; int i = 0
MainPassed ==
    /\ pc = "main_check"
    /\ ~SelfCheckFailed(scResult)
    /\ output' = Append(output, "Self-check passed")
    /\ benchState' = ZeroState
    /\ benchIndex' = 0
    /\ pc' = "bench"
    /\ UNCHANGED << linked, hashVars, tcIndex, scResult, hashed, digests, exitCode,
                    benchCalls, callerVars, wideVars >>

\* one iteration of: for (int i = 0; i < N; i++) md5_compress(state, block)
BenchCompress ==
    /\ pc = "bench"
    /\ benchIndex < BenchIterations
    /\ benchState' = md5_compress(linked, benchState, ZeroBlock)
    /\ benchIndex' = benchIndex + 1
    /\ benchCalls' = benchCalls + 1
    /\ UNCHANGED << linked, pc, hashVars, tcIndex, scResult, hashed, digests, output,
                    exitCode, callerVars, wideVars >>

\* loop exit: printf("Speed: ..."); return EXIT_SUCCESS
BenchDone ==
    /\ pc = "bench"
    /\ ~(benchIndex < BenchIterations)
    /\ output' = Append(output, "Speed")
    /\ exitCode' = "EXIT_SUCCESS"
    /\ pc' = "exit"
    /\ UNCHANGED << linked, hashVars, tcIndex, scResult, hashed, digests, benchState,
                    benchIndex, benchCalls, callerVars, wideVars >>

Next ==
    \/ MainStart
    \/ SelfCheckCall
    \/ HashStep
    \/ SelfCheckCompare
    \/ SelfCheckPass
    \/ MainFailed
    \/ MainPassed
    \/ BenchCompress
    \/ BenchDone

Spec == MainInit /\ [][Next]_vars

\* ------------------------------------------------------------------------
\* The length encoding on a size_t of real width.  A length of 2^16 and more
\* is kept as its bytes, least significant first, and the statements
\*     block[BLOCK_SIZE - LENGTH_SIZE] = (uint8_t)((len & 0x1FU) << 3);
\*     len >>= 5;
\*     for (int i = 1; i < LENGTH_SIZE; i++, len >>= 8)
\*         block[BLOCK_SIZE - LENGTH_SIZE + i] = (uint8_t)(len & 0xFFU);
\* are run on it from the state md5_hash is in when it reaches them.
\* ------------------------------------------------------------------------
\* sizeof(size_t): 16, 32 and 64 bits
SizeWidths == {2, 4, 8}

\* byte values a sampled length is made of
ByteSamples == {0, 1, 31, 32, 128, 224, 255}

\* lengths of width w: the lowest and the highest byte and the bytes between
\* them (all alike) range over the samples
WideLengths(w) ==
    { [j \in 1..w |-> IF j = 1 THEN lo ELSE IF j = w THEN hi ELSE mid] :
        lo \in ByteSamples, mid \in ByteSamples, hi \in ByteSamples }

\* (uint8_t)((len & 0x1FU) << 3)
WideLowByte(x) == ((x[1] % 32) * 8) % 256

\* faulty variant: the shift matches the << 3 instead of the 5 bits taken
WideShiftRight5_By3(x) ==
    [j \in 1..Len(x) |-> (x[j] \div 8) + (IF j < Len(x) THEN (x[j + 1] % 8) * 32 ELSE 0)]

\* len >>= 5
WideShiftRight5(x) ==
    [j \in 1..Len(x) |-> (x[j] \div 32) + (IF j < Len(x) THEN (x[j + 1] % 32) * 8 ELSE 0)]

\* (uint8_t)(len & 0xFFU)
WideNextByte(x) == x[1]

\* len >>= 8
WideShiftRight8(x) == [j \in 1..Len(x) |-> IF j < Len(x) THEN x[j + 1] ELSE 0]

\* the block md5_hash holds at the length encoding, for a message of zero
\* bytes: the tail with its marker, or the cleared second block
BlockBeforeLength(x) ==
    LET r == x[1] % BLOCK_SIZE
    IN  IF NeedsSecondBlock(r + 1) THEN ZeroBlock ELSE StoreByte(ZeroBlock, r, Marker)

WideInit ==
    /\ linked = "std"
    /\ pc = "w_len"
    /\ \E w \in SizeWidths : wide \in WideLengths(w)
    /\ wide0 = wide
    /\ block = BlockBeforeLength(wide)
    /\ message = << >> /\ len = 0 /\ len0 = 0 /\ hash = ZeroState
    /\ off = 0 /\ rem = 0 /\ lenIndex = 0
    /\ fed = << >> /\ stateIn = << >> /\ loopOffs = << >>
    /\ maxRead = 0 /\ copied = -1 /\ written = {}
    /\ loopIters = 0 /\ lenIters = 0 /\ padPath = "none"
    /\ NoMain /\ NoCaller

WideLengthFirst ==
    /\ pc = "w_len"
    /\ block' = StoreByte(block, BLOCK_SIZE - LENGTH_SIZE, WideLowByte(wide))
    /\ written' = written \cup {BLOCK_SIZE - LENGTH_SIZE}
    /\ wide' = WideShiftRight5(wide)
    /\ lenIndex' = 1
    /\ pc' = "w_lenloop"
    /\ UNCHANGED << linked, message, len, hash, off, rem, len0, fed, stateIn, loopOffs,
                    maxRead, copied, loopIters, lenIters, padPath, wide0,
                    mainVars, callerVars >>

WideLengthByte ==
    /\ pc = "w_lenloop"
    /\ lenIndex < LENGTH_SIZE
    /\ block' = StoreByte(block, BLOCK_SIZE - LENGTH_SIZE + lenIndex, WideNextByte(wide))
    /\ written' = written \cup {BLOCK_SIZE - LENGTH_SIZE + lenIndex}
    /\ lenIndex' = lenIndex + 1
    /\ wide' = WideShiftRight8(wide)
    /\ lenIters' = lenIters + 1
    /\ UNCHANGED << linked, pc, message, len, hash, off, rem, len0, fed, stateIn,
                    loopOffs, maxRead, copied, loopIters, padPath, wide0,
                    mainVars, callerVars >>

\* length loop exit: block is what the last md5_compress call is given
WideLengthDone ==
    /\ pc = "w_lenloop"
    /\ ~(lenIndex < LENGTH_SIZE)
    /\ fed' = Append(fed, block)
    /\ pc' = "w_done"
    /\ UNCHANGED << linked, message, len, hash, off, rem, block, lenIndex, len0,
                    stateIn, loopOffs, maxRead, copied, written, loopIters, lenIters,
                    padPath, mainVars, callerVars, wideVars >>

NextWide == WideLengthFirst \/ WideLengthByte \/ WideLengthDone

SpecLen == WideInit /\ [][NextWide]_vars

\* ------------------------------------------------------------------------
\* Properties of md5_hash, checked under SpecHash
\* ------------------------------------------------------------------------
\* the message proper: the len0 bytes the call was given
Msg == SubSeq(message, 1, len0)

\* positions at which the current call has returned
Returned == pc \in {"h_ret", "done"}

\* byte i (from 0) of the little-endian encoding of v
RECURSIVE ByteOf(_, _)
ByteOf(v, i) == IF i = 0 THEN v % 256 ELSE ByteOf(v \div 256, i - 1)

\* the least k >= 0 making n + 1 + k + 8 a multiple of 64
PadZeros(n) ==
    CHOOSE k \in 0..(BLOCK_SIZE - 1) :
        /\ (n + 1 + k + LENGTH_SIZE) % BLOCK_SIZE = 0
        /\ \A k2 \in 0..(k - 1) : (n + 1 + k2 + LENGTH_SIZE) % BLOCK_SIZE # 0

\* m, one 0x80 byte, k zero bytes, the bit length in 8 bytes least significant
\* first (8 * Len(m) is below 2^64 for every length of the scaled size_t)
Padded(m) ==
    m \o << 128 >> \o [k \in 1..PadZeros(Len(m)) |-> 0]
      \o [i \in 1..LENGTH_SIZE |-> ByteOf(8 * Len(m), i - 1)]

\* C1: the blocks md5_hash passes to md5_compress, concatenated in call order,
\* are the message, one 0x80 byte, the least number of zero bytes and the
\* 8-byte little-endian bit length; the marker sits at index len mod 64 of its
\* block, and the length field overwrites neither a message byte nor the marker.
C1_PaddedBlocks ==
    LET p == Padded(Msg)
        n == Len(fed)
    IN  /\ BLOCK_SIZE * n <= Len(p)
        /\ \A k \in 1..n : fed[k] = SubSeq(p, BLOCK_SIZE * (k - 1) + 1, BLOCK_SIZE * k)
        /\ Returned =>
              /\ BLOCK_SIZE * n = Len(p)
              /\ fed[len0 \div BLOCK_SIZE + 1][(len0 % BLOCK_SIZE) + 1] = 128
              /\ \A j \in 1..(len0 % BLOCK_SIZE) :
                    fed[len0 \div BLOCK_SIZE + 1][j] = Msg[BLOCK_SIZE * (len0 \div BLOCK_SIZE) + j]
              /\ \A i \in 1..LENGTH_SIZE :
                    fed[n][BLOCK_SIZE - LENGTH_SIZE + i] = ByteOf(8 * len0, i - 1)

\* a multiple of 64 bytes of changing content has been hashed: the marker opens
\* a block of its own
C1_Witness ==
    /\ pc = "h_ret"
    /\ len0 = 2 * BLOCK_SIZE
    /\ message[2] # 0
    /\ Len(fed) = 3
    /\ fed[3][1] = 128
    /\ fed[3][BLOCK_SIZE - LENGTH_SIZE + 2] = 4

\* positions after the choice between the padding paths
AfterPad == pc \in {"h_len", "h_lenloop", "h_ret", "done"}

\* floor(len / 64) + 1 when len mod 64 <= 55, floor(len / 64) + 2 otherwise
ExpectedCalls(n) == n \div 64 + (IF (n % 64) <= 55 THEN 1 ELSE 2)

\* the calls listed for the boundary lengths
BoundaryCalls(n) ==
    CASE n = 0  -> 1
      [] n = 55 -> 1
      [] n = 56 -> 2
      [] n = 63 -> 2
      [] n = 64 -> 2
      [] n = 65 -> 2

\* C2: the two-block padding path is taken exactly when len mod 64 is in
\* 56..63 and the one-block path exactly when it is at most 55; md5_compress is
\* called floor(len/64) + 1 resp. + 2 times; the lengths 0, 55, 56, 63, 64, 65
\* give 1, 1, 2, 2, 2, 2 calls; on the two-block path the first padding block
\* holds the marker and the second is zero up to the length field.
C2_PaddingPath ==
    /\ ~AfterPad => padPath = "none"
    /\ AfterPad =>
          /\ padPath = "two" <=> (len0 % 64) \in 56..63
          /\ padPath = "one" <=> (len0 % 64) <= 55
    /\ Returned =>
          /\ Len(fed) = ExpectedCalls(len0)
          /\ len0 \in {0, 55, 56, 63, 64, 65} => Len(fed) = BoundaryCalls(len0)
          /\ padPath = "two" =>
                /\ fed[Len(fed) - 1][(len0 % 64) + 1] = 128
                /\ \A j \in 1..(BLOCK_SIZE - LENGTH_SIZE) : fed[Len(fed)][j] = 0

\* 56 bytes hashed: two calls, the second on the length-only block
C2_Witness ==
    /\ pc = "h_ret"
    /\ len0 = 56
    /\ padPath = "two"
    /\ Len(fed) = 2
    /\ fed[2][BLOCK_SIZE - LENGTH_SIZE + 1] = 192

\* C5: whatever hash[4] held at the call, the state is the four initial
\* constants before the first md5_compress call, and a second call on the same
\* message, started with the first call's digest in the buffer, passes the
\* same (state, block) pairs to md5_compress and leaves the same digest.
C5_Deterministic ==
    /\ (pc # "h_init" /\ Len(fed) = 0) => hash = InitialState
    /\ Len(stateIn) >= 1 => stateIn[1] = InitialState
    /\ (run = 2 /\ Returned) =>
          /\ hash = firstDigest
          /\ << stateIn, fed >> = firstCalls

\* both calls done on a message of several blocks; the second started from a
\* buffer unlike any the first may have started from
C5_Witness ==
    /\ pc = "done"
    /\ len0 > 2 * BLOCK_SIZE
    /\ firstDigest \notin Garbage
    /\ firstDigest # InitialState
    /\ hash = firstDigest

\* C6: each call from the full-block loop is made at an offset that is a
\* multiple of 64 with off + 64 <= len and is given message[off .. off+63];
\* the offsets are 0, 64, 128, ... with none skipped or repeated; and every
\* block passed to md5_compress, loop or padding, is 64 bytes long.
C6_FullBlocks ==
    /\ Len(loopOffs) = loopIters
    /\ loopIters <= Len(fed)
    /\ \A k \in 1..Len(loopOffs) :
          /\ loopOffs[k] % BLOCK_SIZE = 0
          /\ loopOffs[k] + BLOCK_SIZE <= len0
          /\ loopOffs[k] = BLOCK_SIZE * (k - 1)
          /\ fed[k] = SubSeq(message, loopOffs[k] + 1, loopOffs[k] + BLOCK_SIZE)
    /\ pc = "h_loop" => off = BLOCK_SIZE * loopIters
    /\ \A k \in 1..Len(fed) : Len(fed[k]) = BLOCK_SIZE

\* three full blocks of changing content went through the loop
C6_Witness ==
    /\ pc = "h_ret"
    /\ loopOffs = << 0, 64, 128 >>
    /\ fed[2] # fed[3]
    /\ fed[3][1] = message[129]

\* what the loops have done so far, and at their exits
C7_Counts ==
    /\ loopIters <= len0 \div BLOCK_SIZE
    /\ lenIters <= LENGTH_SIZE - 1
    /\ pc \notin {"h_init", "h_loop"} =>
          /\ loopIters = len0 \div BLOCK_SIZE
          /\ off = len0 - (len0 % BLOCK_SIZE)
    /\ Returned => lenIters = 7

\* positions inside md5_hash, before its return
InHash == pc \in {"h_init", "h_loop", "h_mark", "h_pad", "h_len", "h_lenloop"}

\* the steps md5_hash has left at most: one per statement ahead, plus the
\* iterations the two loops still owe
StepsLeft ==
    CASE pc = "h_init"    -> (len0 \div BLOCK_SIZE) + 13
      [] pc = "h_loop"    -> (len0 \div BLOCK_SIZE) - loopIters + 12
      [] pc = "h_mark"    -> 11
      [] pc = "h_pad"     -> 10
      [] pc = "h_len"     -> 9
      [] pc = "h_lenloop" -> 9 - lenIndex
      [] OTHER            -> 0

\* inside md5_hash some statement can always run (md5_compress returns)
CanStep ==
    \/ pc \in {"h_init", "h_mark", "h_pad", "h_len"}
    \/ pc = "h_loop" /\ (LoopCond(len, off) \/ ~LoopCond(len, off))
    \/ pc = "h_lenloop" /\ (lenIndex < LENGTH_SIZE \/ ~(lenIndex < LENGTH_SIZE))

\* C7: for every length a size_t holds md5_hash returns: inside it a step can
\* always be taken and every step lowers a non-negative count of the steps
\* left; the full-block loop runs floor(len/64) times and leaves
\* off = len - len mod 64; the length loop runs 7 times.
C7_Total ==
    /\ [](C7_Counts /\ StepsLeft >= 0 /\ (InHash => CanStep))
    /\ [][InHash => (StepsLeft' < StepsLeft /\ StepsLeft' >= 0)]_vars

\* the longest message a size_t can measure has been hashed
C7_Witness ==
    /\ pc = "done"
    /\ len0 = SIZE_MAX
    /\ loopIters = SIZE_MAX \div BLOCK_SIZE
    /\ lenIters = 7

\* positions at which len still holds the length passed: from the loop to
\* the statement before len >>= 5
LenIntact == pc \in {"h_loop", "h_mark", "h_pad", "h_len"}

\* C10 as stated, with len the variable of md5_hash in every state: off <= len
\* throughout, rem in 0..63 at the copy, stores into block at 0..63, reads of
\* the message below the length passed
C10_AsStated ==
    /\ pc # "h_init" => off <= len
    /\ pc = "h_mark" => rem \in 0..(BLOCK_SIZE - 1)
    /\ copied # -1 => copied \in 0..(BLOCK_SIZE - 1)
    /\ written \subseteq 0..(BLOCK_SIZE - 1)
    /\ maxRead <= len0

\* C10: off never passes the length passed to md5_hash, and never passes len
\* while len still holds it (as far as rem = len - off and up to len >>= 5), so
\* len - off does not wrap where it is computed and off += 64 does not
\* overflow; rem is in 0..63 when the tail is copied; every index stored into
\* block is in 0..63; no message byte at or past the length passed is read.
C10_MemorySafe ==
    /\ pc # "h_init" => off <= len0
    /\ LenIntact =>
          /\ len = len0
          /\ off <= len
    /\ (pc = "h_loop" /\ LoopCond(len, off)) => off + BLOCK_SIZE <= SIZE_MAX
    /\ pc = "h_mark" => rem = len0 - off /\ rem \in 0..(BLOCK_SIZE - 1)
    /\ copied # -1 => copied \in 0..(BLOCK_SIZE - 1)
    /\ written \subseteq 0..(BLOCK_SIZE - 1)
    /\ maxRead <= len0
    /\ len0 <= Len(message)

\* a whole number of blocks hashed: nothing copied to the tail, the last byte
\* read is the last byte of the message
C10_Witness ==
    /\ pc = "h_ret"
    /\ len0 = 3 * BLOCK_SIZE
    /\ off = len0
    /\ len < off
    /\ copied = 0
    /\ maxRead = len0
    /\ written = {0} \cup (56..63)

\* ------------------------------------------------------------------------
\* The length field on a size_t of real width, checked under SpecLen
\* ------------------------------------------------------------------------
\* byte j (from 1) of x, zero above its width
WideByte(x, j) == IF j <= Len(x) THEN x[j] ELSE 0

\* the carry into byte j of 8 * x, multiplied out byte by byte
RECURSIVE CarryInto(_, _)
CarryInto(x, j) ==
    IF j = 1 THEN 0 ELSE (8 * WideByte(x, j - 1) + CarryInto(x, j - 1)) \div 256

\* byte i (from 0) of (8 * x) mod 2^64: the carry out of byte 7 is dropped
BitLengthByte(x, i) == (8 * WideByte(x, i + 1) + CarryInto(x, i + 1)) % 256

\* C3: for a size_t of 16, 32 or 64 bits, byte i of the last 8 bytes of the
\* final block is byte i of (8 * len) mod 2^64, least significant first: the
\* code's (len & 0x1F) << 3, len >>= 5, then one low byte per len >>= 8 never
\* forms 8 * len, so bits of len that 8 * len would push out of the size_t are
\* kept.
C3_LengthField ==
    /\ pc = "w_lenloop" =>
          \A i \in 0..(lenIndex - 1) :
              block[BLOCK_SIZE - LENGTH_SIZE + i + 1] = BitLengthByte(wide0, i)
    /\ pc = "w_done" =>
          /\ lenIters = 7
          /\ \A i \in 0..7 :
                fed[Len(fed)][BLOCK_SIZE - LENGTH_SIZE + i + 1] = BitLengthByte(wide0, i)

\* a 32-bit length with its top three bits set: they arrive in byte 4 of the
\* field, where a 32-bit 8 * len would have lost them
C3_Witness ==
    /\ pc = "w_done"
    /\ Len(wide0) = 4
    /\ wide0[4] = 255
    /\ block[BLOCK_SIZE - LENGTH_SIZE + 5] = 7
    /\ block[BLOCK_SIZE - LENGTH_SIZE + 4] >= 248

\* ------------------------------------------------------------------------
\* Properties of self_check and main, checked under Spec
\* ------------------------------------------------------------------------
\* the lines printed so far
Printed(line) == \E k \in 1..Len(output) : output[k] = line

\* C4: the benchmark calls md5_compress only after self_check has returned
\* true; when self_check returns false, main prints "Self-check failed",
\* returns EXIT_FAILURE, never prints "Self-check passed" and makes no
\* benchmark call.
C4_Gate ==
    /\ benchCalls > 0 => scResult = "true"
    /\ pc = "bench" => scResult = "true"
    /\ Printed("Self-check passed") => scResult = "true"
    /\ Printed("Speed") => scResult = "true"
    /\ exitCode = "EXIT_SUCCESS" => scResult = "true"
    /\ scResult = "false" =>
          /\ pc \in {"main_check", "exit"}
          /\ benchCalls = 0
          /\ ~Printed("Self-check passed")
          /\ pc = "exit" =>
                /\ output = << "Self-check failed" >>
                /\ exitCode = "EXIT_FAILURE"

\* main has returned after a failed self-check
C4_Witness ==
    /\ pc = "exit"
    /\ scResult = "false"
    /\ exitCode = "EXIT_FAILURE"
    /\ output = << "Self-check failed" >>
    /\ benchCalls = 0

\* C8: linked with the standard compression function, md5_hash leaves for each
\* of the 7 table messages the four words the table lists ("" gives D98C1DD4
\* 04B2008F 980980E9 7E42F8EC), and self_check returns true.
C8_KnownVectors ==
    linked = "std" =>
        /\ \A k \in 1..Len(digests) : digests[k] = TestCases[k].answer
        /\ Len(digests) >= 1 =>
              digests[1] = << W32(\hD98C, \h1DD4), W32(\h04B2, \h008F),
                              W32(\h9809, \h80E9), W32(\h7E42, \hF8EC) >>
        /\ scResult # "false"
        /\ pc \in {"main_check", "bench", "exit"} =>
              /\ scResult = "true"
              /\ Len(digests) = 7

\* the standard function is linked and all 7 entries have been hashed, the
\* 80-byte one included
C8_Witness ==
    /\ linked = "std"
    /\ scResult = "true"
    /\ Len(digests) = 7
    /\ len0 = 80
    /\ digests[7] = << W32(\hA2F4, \hED57), W32(\h55C9, \hE32B),
                       W32(\h2EDA, \h49AC), W32(\h7AB6, \h0721) >>

\* the hash left for entry k (from 1) differs from the entry's answer
Mismatch(k) == digests[k] # TestCases[k].answer

\* positions from which self_check has returned
SelfCheckReturned == pc \in {"main_check", "bench", "exit"}

\* C9: self_check returns true exactly when the hash md5_hash leaves for every
\* one of the 7 entries equals the entry's answer; entries are hashed in table
\* order, each on the bytes before its first zero byte; the first mismatch, be
\* it in one word only, makes it return false with no later entry hashed.
C9_SelfCheck ==
    /\ hashed = [k \in 1..Len(hashed) |-> k - 1]
    /\ Len(hashed) <= NumTestCases
    /\ Len(digests) <= Len(hashed)
    /\ Len(hashed) <= Len(digests) + 1
    /\ (InHash \/ pc = "h_ret") =>
          /\ message = TestCases[Len(hashed)].message
          /\ message[len0 + 1] = 0
          /\ \A j \in 1..len0 : message[j] # 0
    /\ SelfCheckReturned <=> scResult # "pending"
    /\ scResult = "true" <=>
          /\ SelfCheckReturned
          /\ Len(digests) = 7
          /\ \A k \in 1..7 : ~Mismatch(k)
    /\ scResult = "false" <=>
          /\ SelfCheckReturned
          /\ \E k \in 1..Len(digests) : Mismatch(k)
    /\ scResult = "false" =>
          /\ Len(hashed) = Len(digests)
          /\ Mismatch(Len(digests))
          /\ \A k \in 1..(Len(digests) - 1) : ~Mismatch(k)
    /\ scResult = "pending" => \A k \in 1..Len(digests) : ~Mismatch(k)

\* self_check has returned false at its first entry over a single wrong word
C9_Witness ==
    /\ scResult = "false"
    /\ pc = "exit"
    /\ hashed = << 0 >>
    /\ digests[1][4] # TestCases[1].answer[4]
    /\ \A w \in 1..3 : digests[1][w] = TestCases[1].answer[w]
====
